---- MODULE Spec2Model ----
(***************************************************************************)
(* Model of src/app/redis_server.py: the per-connection command pipeline   *)
(* (handle_client, _execute_command), the MULTI/EXEC/DISCARD transaction   *)
(* table, the keyspace with expiry, write forwarding on a slave and the    *)
(* generation-based CLUSTER MASTER_ANNOUNCE handling.                      *)
(*                                                                         *)
(* The server runs on one cooperative event loop.  A step of the model is  *)
(* the code a handler runs between two suspension points.  `running` names *)
(* the connection whose handler holds the loop and has not yet yielded.    *)
(***************************************************************************)
EXTENDS Integers, Sequences, FiniteSets, TLC

(* ------------------------------ bounds --------------------------------- *)
\* total number of commands buffered in all open transactions
MaxQueued == 2
\* largest generation carried by an announcement or a generation marker
MaxGen == 2
\* writes are accepted while master_repl_offset is below this many bytes
MaxOffset == 40
\* latest clock value (milliseconds) the model reaches
MaxTime == 40
\* asyncio.sleep(0.01): milliseconds between two polls of WAIT
PollMs == 10

Conns == {"c1", "c2"}
Keys == {"a"}
\* the replication links that may attach to the node as replicas
Replicas == {"r1"}

(* ----------------------- text conversions ------------------------------ *)
\* str(n) for the integers the model meets
DecimalStrings ==
  <<"0", "1", "2", "3", "4", "5", "6", "7", "8", "9", "10", "11", "12",
    "13", "14", "15", "16", "17", "18", "19", "20", "21", "22", "23", "24">>

ToStr(n) == DecimalStrings[n + 1]

\* int(s) succeeds
IsInt(s) == \E n \in 0..(Len(DecimalStrings) - 1) : ToStr(n) = s

\* int(s), for a string on which it succeeds
ParseInt(s) == CHOOSE n \in 0..(Len(DecimalStrings) - 1) : ToStr(n) = s

\* str.upper() on the command tokens the model sends
Upper(s) ==
  CASE s = "ping" -> "PING"
    [] s = "multi" -> "MULTI"
    [] s = "exec" -> "EXEC"
    [] s = "discard" -> "DISCARD"
    [] s = "set" -> "SET"
    [] s = "incr" -> "INCR"
    [] s = "get" -> "GET"
    [] s = "px" -> "PX"
    [] s = "cluster" -> "CLUSTER"
    [] s = "master_announce" -> "MASTER_ANNOUNCE"
    [] OTHER -> s

\* max() that keeps its first argument
Max_First(a, b) == a

Max(a, b) == IF a >= b THEN a ELSE b

(* ----------------------------- wire codec ------------------------------ *)
encode_simple_string(s) == "+" \o s \o "\r\n"

encode_error(m) == "-" \o m \o "\r\n"

encode_integer(n) == ":" \o ToStr(n) \o "\r\n"

encode_bulk_string(s) == "$" \o ToStr(Len(s)) \o "\r\n" \o s \o "\r\n"

NullBulk == "$-1\r\n"

RECURSIVE Concat(_)
Concat(seq) == IF seq = <<>> THEN "" ELSE Head(seq) \o Concat(Tail(seq))

encode_array(items) ==
  "*" \o ToStr(Len(items)) \o "\r\n"
      \o Concat([i \in 1..Len(items) |-> encode_bulk_string(items[i])])

(* ------------------------------- state --------------------------------- *)
VARIABLES
  data_store,              \* key -> <<value, expiry>>, for the keys present
  rdb,                     \* the snapshot last persisted
  now,                     \* get_current_time_ms()
  transactions,            \* connection -> its queued <<command, args>>
  role,                    \* replication.role
  generation,              \* replication.generation
  highest_seen_generation, \* replication.highest_seen_generation
  election_state,          \* replication.election_state
  has_pending_writes,      \* replication.has_pending_writes
  master_repl_offset,      \* replication.master_repl_offset
  master_host,             \* TRUE when an upstream master is configured
  open,                    \* connection -> accepted and not yet closed
  pc,                      \* connection -> where its handler is suspended
  responses,               \* connection -> replies collected by a running EXEC
  running,                 \* the connection holding the event loop, or Nobody
  reply,                   \* <<connection, bytes>> written by the last step
  replicas,                \* replication.replicas: the attached replica links
  closing,                 \* the replicas whose transport is closing
  replica_ack,             \* replica -> the offset it acknowledged last
  waits,                   \* connection -> the locals of its suspended WAIT
  cluster,                 \* node of a group -> its replication state
  announcements,           \* the <<sender, peer, generation>> in flight
  announced_generation,    \* history: highest generation announced, -1 if none
  acked_generation,        \* history: highest generation acknowledged, -1 if none
  effects                  \* history: what the last step did of these, in
                           \* code order: <<"reply", <<c>>>> for the reply
                           \* of a write, <<"propagate", command>>

vars ==
  <<data_store, rdb, now, transactions, role, generation,
    highest_seen_generation, election_state, has_pending_writes,
    master_repl_offset, master_host, open, pc, responses, running, reply,
    replicas, closing, replica_ack, waits, cluster, announcements,
    announced_generation, acked_generation, effects>>

Nobody == "nobody"
NoExpiry == -1
NoReply == <<Nobody, "">>

Remove(f, c) == [x \in (DOMAIN f) \ {c} |-> f[x]]

\* a store that drops the write
Put_Keeps(f, k, v) == f

Put(f, k, v) == [x \in (DOMAIN f) \cup {k} |-> IF x = k THEN v ELSE f[x]]

QueuedTotal ==
  LET RECURSIVE Sum(_)
      Sum(S) == IF S = {} THEN 0
                ELSE LET x == CHOOSE y \in S : TRUE
                     IN Len(transactions[x]) + Sum(S \ {x})
  IN Sum(DOMAIN transactions)

(* ------------------------------ keyspace ------------------------------- *)
\* the expiry check without its clock comparison: a stored key never expires
is_key_expired_Never(key) == key \notin DOMAIN data_store

is_key_expired(key) ==
  IF key \notin DOMAIN data_store THEN TRUE
  ELSE IF data_store[key][2] = NoExpiry THEN FALSE
  ELSE now >= data_store[key][2]

\* the value a lookup in the persisted snapshot yields, "" when it yields None
_get_value_from_rdb(key) ==
  IF key \in DOMAIN rdb
  THEN IF rdb[key][2] # NoExpiry /\ now >= rdb[key][2] THEN "" ELSE rdb[key][1]
  ELSE ""

\* offset after propagate_to_replicas(cmd): advanced by the encoded length
Propagated(cmd) == master_repl_offset + Len(encode_array(cmd))

SubSeqFrom(s, i) == IF i > Len(s) THEN <<>> ELSE SubSeq(s, i, Len(s))

(* ------------------------ generation markers --------------------------- *)
GenSuffixes == {ToStr(n) : n \in 0..(MaxGen + 1)} \cup {"x"}

GenMarkers == {"_GEN_" \o t : t \in GenSuffixes}

\* arg.startswith("_GEN_")
IsGenMarker(arg) == arg \in GenMarkers

\* arg[5:] of a marker
MarkerSuffix(arg) == CHOOSE t \in GenSuffixes : arg = "_GEN_" \o t

\* index of the last argument that starts with _GEN_, 0 when there is none
MarkerIndex(args) ==
  LET S == {i \in 1..Len(args) : IsGenMarker(args[i])}
  IN IF S = {} THEN 0 ELSE CHOOSE i \in S : \A j \in S : j <= i

MarkerValid(args) ==
  MarkerIndex(args) # 0 /\ IsInt(MarkerSuffix(args[MarkerIndex(args)]))

\* the arguments after the marker scan
StripMarker(args) ==
  IF MarkerValid(args)
  THEN LET i == MarkerIndex(args)
       IN SubSeq(args, 1, i - 1) \o SubSeqFrom(args, i + 1)
  ELSE args

\* highest_seen_generation after the marker scan
MarkerSeen(args) ==
  IF MarkerValid(args)
  THEN LET g == ParseInt(MarkerSuffix(args[MarkerIndex(args)]))
       IN IF g > highest_seen_generation THEN g ELSE highest_seen_generation
  ELSE highest_seen_generation

(* ------------------------- variable groups ----------------------------- *)
kv == <<data_store, rdb>>
wt == <<replicas, closing, replica_ack, waits>>
grp == <<cluster, announcements, announced_generation>>
quiet == <<now, acked_generation, wt, grp>>
repl == <<role, generation, election_state, has_pending_writes,
          master_repl_offset, master_host>>
sched == <<open, pc, responses, running>>

write_commands ==
  {"SET", "INCR", "DEL", "LPUSH", "RPUSH", "HSET", "SADD", "ZADD", "EXPIRE"}

(* --------------------------- transactions ------------------------------ *)
_handle_multi(c, hsg) ==
  /\ transactions' = Put(transactions, c, <<>>)
  /\ reply' = <<c, encode_simple_string("OK")>>
  /\ highest_seen_generation' = hsg
  /\ effects' = <<>>
  /\ UNCHANGED <<kv, quiet, repl, sched>>

\* EXEC outside a transaction taken for an EXEC of an empty transaction
_handle_exec_EmptyArray(c, hsg) ==
  /\ highest_seen_generation' = hsg
  /\ IF c \notin DOMAIN transactions \/ transactions[c] = <<>>
     THEN /\ reply' = <<c, "*0\r\n">>
          /\ transactions' = Remove(transactions, c)
          /\ effects' = <<>>
          /\ UNCHANGED <<kv, quiet, repl, sched>>
     ELSE /\ pc' = [pc EXCEPT ![c] = "exec"]
          /\ responses' = [responses EXCEPT ![c] = <<>>]
          /\ running' = c
          /\ reply' = NoReply
          /\ effects' = <<>>
          /\ UNCHANGED <<kv, quiet, repl, open, transactions>>

_handle_exec(c, hsg) ==
  /\ highest_seen_generation' = hsg
  /\ IF c \notin DOMAIN transactions
     THEN /\ reply' = <<c, encode_error("ERR EXEC without MULTI")>>
          /\ effects' = <<>>
          /\ UNCHANGED <<kv, quiet, repl, sched, transactions>>
     ELSE IF transactions[c] = <<>>
     THEN /\ reply' = <<c, "*0\r\n">>
          /\ transactions' = Remove(transactions, c)
          /\ effects' = <<>>
          /\ UNCHANGED <<kv, quiet, repl, sched>>
     ELSE /\ pc' = [pc EXCEPT ![c] = "exec"]
          /\ responses' = [responses EXCEPT ![c] = <<>>]
          /\ running' = c
          /\ reply' = NoReply
          /\ effects' = <<>>
          /\ UNCHANGED <<kv, quiet, repl, open, transactions>>

\* DISCARD that replies without removing the transaction state
_handle_discard_KeepsBuffer(c, hsg) ==
  /\ highest_seen_generation' = hsg
  /\ reply' = <<c, IF c \notin DOMAIN transactions
                   THEN encode_error("ERR DISCARD without MULTI")
                   ELSE encode_simple_string("OK")>>
  /\ effects' = <<>>
  /\ UNCHANGED <<kv, quiet, repl, sched, transactions>>

_handle_discard(c, hsg) ==
  /\ highest_seen_generation' = hsg
  /\ IF c \notin DOMAIN transactions
     THEN /\ reply' = <<c, encode_error("ERR DISCARD without MULTI")>>
          /\ UNCHANGED transactions
     ELSE /\ transactions' = Remove(transactions, c)
          /\ reply' = <<c, encode_simple_string("OK")>>
  /\ effects' = <<>>
  /\ UNCHANGED <<kv, quiet, repl, sched>>

\* the branch that queues a command of a connection inside a transaction
QueueCommand(c, command, args, hsg) ==
  /\ QueuedTotal < MaxQueued
  /\ transactions' =
       [transactions EXCEPT ![c] = Append(@, <<command, args>>)]
  /\ reply' = <<c, encode_simple_string("QUEUED")>>
  /\ highest_seen_generation' = hsg
  /\ effects' = <<>>
  /\ UNCHANGED <<kv, quiet, repl, sched>>

(* ------------------------- keyspace handlers --------------------------- *)
\* how SET reads its PX option: "none", "px", or "bad" when int() raises
SetExpiry(args) ==
  IF Len(args) >= 4 /\ Upper(args[3]) = "PX"
  THEN IF IsInt(args[4]) THEN "px" ELSE "bad"
  ELSE "none"

ExpiryOf(args) ==
  IF SetExpiry(args) = "px" THEN now + ParseInt(args[4]) ELSE NoExpiry

_handle_set(c, args, hsg) ==
  /\ highest_seen_generation' = hsg
  /\ IF SetExpiry(args) = "bad"
     THEN /\ reply' =
               <<c, encode_error("value is not an integer or out of range")>>
          /\ effects' = <<>>
          /\ UNCHANGED <<kv, quiet, repl, sched, transactions>>
     ELSE /\ master_repl_offset < MaxOffset
          /\ data_store' = Put(data_store, args[1], <<args[2], ExpiryOf(args)>>)
          /\ reply' = <<c, encode_simple_string("OK")>>
          /\ rdb' = data_store'
          /\ master_repl_offset' =
               Propagated(<<"SET", args[1], args[2]>> \o SubSeqFrom(args, 3))
          /\ has_pending_writes' = TRUE
          /\ effects' =
               <<<<"reply", <<c>>>>,
                 <<"propagate",
                   <<"SET", args[1], args[2]>> \o SubSeqFrom(args, 3)>>>>
          /\ UNCHANGED <<quiet, role, generation, election_state, master_host,
                         sched, transactions>>

_handle_get(c, args, hsg) ==
  /\ highest_seen_generation' = hsg
  /\ IF Len(args) = 1
     THEN IF args[1] \in DOMAIN data_store
          THEN IF is_key_expired(args[1])
               THEN /\ data_store' = Remove(data_store, args[1])
                    /\ reply' = <<c, NullBulk>>
               ELSE /\ reply' =
                         <<c, encode_bulk_string(data_store[args[1]][1])>>
                    /\ UNCHANGED data_store
          ELSE /\ reply' =
                    <<c, IF _get_value_from_rdb(args[1]) # ""
                         THEN encode_bulk_string(_get_value_from_rdb(args[1]))
                         ELSE NullBulk>>
               /\ UNCHANGED data_store
     ELSE /\ reply' =
               <<c, encode_error("wrong number of arguments for 'get' command")>>
          /\ UNCHANGED data_store
  /\ effects' = <<>>
  /\ UNCHANGED <<rdb, quiet, repl, sched, transactions>>

\* the keys of a keyspace in the order a scan meets them
RECURSIVE KeyList(_)
KeyList(S) ==
  IF S = {} THEN <<>>
  ELSE LET k == CHOOSE x \in S : \A y \in S : Len(x) <= Len(y)
       IN <<k>> \o KeyList(S \ {k})

\* the entry of the key in this keyspace is past its expiry
EntryExpired(store, key) ==
  store[key][2] # NoExpiry /\ now >= store[key][2]

\* the keyspace after the reload that a scan of every key starts with: an
\* empty keyspace is filled from the persisted snapshot
_load_from_rdb(pattern) ==
  IF pattern = "*" /\ data_store = <<>>
  THEN [k \in DOMAIN rdb |-> rdb[k]]
  ELSE data_store

\* the keys of the keyspace that match and are not expired: every key for
\* "*", else the key the pattern names
_get_matching_keys(pattern, store) ==
  KeyList({k \in DOMAIN store :
             (pattern = "*" \/ pattern = k) /\ ~EntryExpired(store, k)})

\* the KEYS branch of _execute_command
KEYS(c, args, hsg) ==
  LET pattern == IF args # <<>> THEN args[1] ELSE "*"
      store == _load_from_rdb(pattern)
  IN /\ highest_seen_generation' = hsg
     /\ data_store' = store
     /\ reply' = <<c, encode_array(_get_matching_keys(pattern, store))>>
     /\ effects' = <<>>
     /\ UNCHANGED <<rdb, quiet, repl, sched, transactions>>

(* ------------------------ forwarding on a slave ------------------------ *)
_forward_write_to_master(c, command, args, hsg) ==
  /\ highest_seen_generation' = hsg
  /\ IF ~master_host
     THEN /\ reply' =
               <<c, encode_error(
                      "READONLY You can't write against a read only replica")>>
          /\ UNCHANGED pc
     ELSE /\ pc' = [pc EXCEPT ![c] = "forward"]
          /\ reply' = NoReply
  /\ effects' = <<>>
  /\ UNCHANGED <<kv, quiet, repl, open, responses, running, transactions>>

\* what the read from the master connection yields, or the failure reply
MasterReplies ==
  {encode_simple_string("OK"),
   encode_error("ERR master connection failed: refused")}

\* _forward_write_to_master resumes: the master's reply is relayed
ForwardDone(c, response_data) ==
  /\ running = Nobody
  /\ pc[c] = "forward"
  /\ pc' = [pc EXCEPT ![c] = "idle"]
  /\ reply' = <<c, response_data>>
  /\ effects' = <<>>
  /\ UNCHANGED <<kv, quiet, repl, highest_seen_generation, open, responses,
                 running, transactions>>

_handle_incr(c, args, hsg) ==
  /\ highest_seen_generation' = hsg
  /\ IF Len(args) # 1
     THEN /\ reply' =
               <<c, encode_error(
                      "ERR wrong number of arguments for 'incr' command")>>
          /\ effects' = <<>>
          /\ UNCHANGED <<kv, quiet, repl, sched, transactions>>
     ELSE IF role = "slave"
     THEN _forward_write_to_master(c, "INCR", args, hsg)
     ELSE IF args[1] \in DOMAIN data_store /\ ~is_key_expired(args[1])
     THEN IF IsInt(data_store[args[1]][1])
          THEN LET int_value == ParseInt(data_store[args[1]][1]) + 1
               IN /\ master_repl_offset < MaxOffset
                  /\ data_store' =
                       Put(data_store, args[1],
                           <<ToStr(int_value), data_store[args[1]][2]>>)
                  /\ rdb' = data_store'
                  /\ reply' = <<c, encode_integer(int_value)>>
                  /\ master_repl_offset' =
                       Propagated(<<"SET", args[1], ToStr(int_value)>>)
                  /\ has_pending_writes' = TRUE
                  /\ effects' =
                       <<<<"reply", <<c>>>>,
                         <<"propagate", <<"SET", args[1], ToStr(int_value)>>>>>>
                  /\ UNCHANGED <<quiet, role, generation, election_state,
                                 master_host, sched, transactions>>
          ELSE /\ reply' =
                    <<c, encode_error(
                           "ERR value is not an integer or out of range")>>
               /\ effects' = <<>>
               /\ UNCHANGED <<kv, quiet, repl, sched, transactions>>
     ELSE /\ master_repl_offset < MaxOffset
          /\ data_store' = Put(data_store, args[1], <<"1", NoExpiry>>)
          /\ rdb' = data_store'
          /\ reply' = <<c, encode_integer(1)>>
          /\ master_repl_offset' = Propagated(<<"SET", args[1], "1">>)
          /\ has_pending_writes' = TRUE
          /\ effects' =
               <<<<"reply", <<c>>>>, <<"propagate", <<"SET", args[1], "1">>>>>>
          /\ UNCHANGED <<quiet, role, generation, election_state, master_host,
                         sched, transactions>>

(* ------------------------------ cluster -------------------------------- *)
GenerationTexts == {ToStr(n) : n \in 0..(MaxGen + 1)} \cup {"x"}

GenerationArgs == {"generation=" \o t : t \in GenerationTexts}

\* arg.startswith("generation=")
IsGenerationArg(arg) == arg \in GenerationArgs

\* arg[11:]
GenerationText(arg) == CHOOSE t \in GenerationTexts : arg = "generation=" \o t

\* the generation the argument scan of MASTER_ANNOUNCE ends with
RECURSIVE AnnouncedGeneration(_, _)
AnnouncedGeneration(args, g) ==
  IF args = <<>> THEN g
  ELSE IF IsGenerationArg(Head(args)) /\ IsInt(GenerationText(Head(args)))
  THEN AnnouncedGeneration(Tail(args), ParseInt(GenerationText(Head(args))))
  ELSE AnnouncedGeneration(Tail(args), g)

\* the rule without its role test: an equal generation always wins
Acknowledges_Equal(g) == g >= generation

\* the rule without its comparison: every announcement wins
Acknowledges_Any(g) == g >= 0

\* the rule without its comparison of a higher generation: only an equal
\* generation wins, against a slave
Wins_OnlyEqual(g, own_generation, own_role) ==
  g = own_generation /\ own_role = "slave"

\* the election rule of a node with this generation and role
Wins(g, own_generation, own_role) ==
  g > own_generation \/ (g = own_generation /\ own_role = "slave")

\* the election rule: the announcement is acknowledged
Acknowledges(g) == Wins(g, generation, role)

_handle_cluster_command(c, args, hsg) ==
  IF args = <<>>
  THEN /\ reply' =
            <<c, encode_error(
                   "ERR wrong number of arguments for 'cluster' command")>>
       /\ highest_seen_generation' = hsg
       /\ effects' = <<>>
       /\ UNCHANGED <<kv, quiet, repl, sched, transactions>>
  ELSE IF Upper(args[1]) = "MASTER_ANNOUNCE"
  THEN LET g == AnnouncedGeneration(Tail(args), 0)
       IN IF Acknowledges(g)
          THEN /\ role' = "slave"
               /\ election_state' =
                    IF role = "master" THEN "follower" ELSE election_state
               /\ highest_seen_generation' = Max(hsg, g)
               /\ reply' = <<c, encode_simple_string("OK")>>
               /\ acked_generation' = Max(acked_generation, g)
               /\ effects' = <<>>
               /\ UNCHANGED <<kv, now, wt, grp, generation, has_pending_writes,
                              master_repl_offset, master_host, sched,
                              transactions>>
          ELSE /\ reply' =
                    <<c, encode_simple_string(
                           "REJECTED generation=" \o ToStr(generation)
                              \o " role=" \o role)>>
               /\ highest_seen_generation' = hsg
               /\ effects' = <<>>
               /\ UNCHANGED <<kv, quiet, repl, sched, transactions>>
  ELSE /\ reply' =
            <<c, encode_error(
                   "ERR unknown subcommand '" \o Upper(args[1]) \o "'")>>
       /\ highest_seen_generation' = hsg
       /\ effects' = <<>>
       /\ UNCHANGED <<kv, quiet, repl, sched, transactions>>

(* -------------------------------- WAIT --------------------------------- *)
Min(a, b) == IF a <= b THEN a ELSE b

\* the replica set after the closed links are pruned
cleanup_replicas == replicas \ closing

\* replicas whose acknowledged offset has reached the offset
count_acked_replicas(offset) ==
  Cardinality({r \in replicas : replica_ack[r] >= offset})

\* replica_count == 0 or num_replicas == 0
NothingToWait_NoReplica(replica_count, num_replicas) == replica_count = 0

NothingToWait(replica_count, num_replicas) ==
  replica_count = 0 \/ num_replicas = 0

\* the locals of a WAIT that starts now; issued, issued_offset, pending,
\* acked_at_issue and sent are history: the clock, the master offset, the
\* pending flag and the replicas that had acknowledged that offset when the
\* command arrived, and the number of GETACK requests written so far
WaitLocals(num_replicas, timeout_ms, live) ==
  [num_replicas |-> num_replicas, timeout_ms |-> timeout_ms,
   end_time |-> now + timeout_ms, current_offset |-> 0, acked_replicas |-> 0,
   todo |-> {}, size |-> 0, due |-> FALSE, issued |-> now,
   issued_offset |-> master_repl_offset, pending |-> has_pending_writes,
   acked_at_issue |->
     Cardinality({r \in live : replica_ack[r] >= master_repl_offset}),
   sent |-> 0]

\* the reply of WAIT is written and the command is over
WaitReply(c, bytes) ==
  /\ reply' = <<c, bytes>>
  /\ pc' = [pc EXCEPT ![c] = "idle"]
  /\ waits' = Remove(waits, c)
  /\ running' = Nobody

\* await asyncio.sleep(0.01) in one of the two loops
WaitSleep(c, w, where) ==
  /\ reply' = NoReply
  /\ pc' = [pc EXCEPT ![c] = where]
  /\ waits' = Put(waits, c, [w EXCEPT !.due = FALSE])
  /\ running' = Nobody

\* a for loop over the replica set R starts
WaitBroadcast(c, w, where, R) ==
  /\ reply' = NoReply
  /\ pc' = [pc EXCEPT ![c] = where]
  /\ waits' = Put(waits, c, [w EXCEPT !.todo = R, !.size = Cardinality(R)])
  /\ running' = c

\* the polling loop of a WAIT with pending writes
WaitPoll(c, w) ==
  IF now < w.end_time
  THEN LET acked == count_acked_replicas(w.current_offset)
       IN IF acked >= w.num_replicas
          THEN WaitReply(c, encode_integer(Min(acked, w.num_replicas)))
          ELSE WaitSleep(c, [w EXCEPT !.acked_replicas = acked], "sleep2")
  ELSE WaitReply(c, encode_integer(Min(w.acked_replicas, w.num_replicas)))

\* the code after the first loop: the replicas in R are counted again, and
\* with pending writes the master offset is read and GETACK is broadcast
WaitDecide(c, w, R) ==
  IF NothingToWait(Cardinality(R), w.num_replicas)
  THEN WaitReply(c, encode_integer(0))
  ELSE IF ~has_pending_writes
  THEN WaitReply(c, encode_integer(Cardinality(R)))
  ELSE WaitBroadcast(c, [w EXCEPT !.current_offset = master_repl_offset],
                     "getack2", R)

\* the loop that only waits for the timeout, entered with fewer replicas
\* than requested
WaitTimeout(c, w) ==
  IF now < w.end_time THEN WaitSleep(c, w, "sleep1")
  ELSE WaitDecide(c, w, replicas)

\* the WAIT branch of _execute_command up to its first suspension
WAIT(c, args, hsg) ==
  /\ highest_seen_generation' = hsg
  /\ effects' = <<>>
  /\ IF Len(args) >= 1 /\ ~IsInt(args[1])
     THEN /\ reply' = <<c, encode_error("value is not an integer")>>
          /\ UNCHANGED <<kv, quiet, repl, sched, transactions>>
     ELSE IF Len(args) >= 2 /\ ~IsInt(args[2])
     THEN /\ reply' = <<c, encode_error("timeout is not an integer")>>
          /\ UNCHANGED <<kv, quiet, repl, sched, transactions>>
     ELSE LET num_replicas == IF Len(args) >= 1 THEN ParseInt(args[1]) ELSE 0
              timeout_ms == IF Len(args) >= 2 THEN ParseInt(args[2]) ELSE 0
              live == cleanup_replicas
              w == WaitLocals(num_replicas, timeout_ms, live)
          IN /\ replicas' = live
             /\ closing' = {}
             /\ IF NothingToWait(Cardinality(live), num_replicas)
                THEN WaitReply(c, encode_integer(0))
                ELSE IF Cardinality(live) < num_replicas
                THEN WaitBroadcast(c, w, "getack1", live)
                ELSE WaitDecide(c, w, live)
             /\ UNCHANGED <<kv, now, grp, acked_generation, replica_ack, repl,
                            open, responses, transactions>>

\* one turn of a GETACK loop.  The replica collection is the set of the
\* spec; a set whose size changed since the loop started makes the
\* iteration raise where the missing manager mutates it in place, and the
\* handler of _execute_command then answers with an error.  A replica that
\* is closing is skipped; the drain after a write may suspend the handler
Getack(c) ==
  /\ running \in {c, Nobody}
  /\ pc[c] \in {"getack1", "getack2"}
  /\ LET w == waits[c]
         live == w.todo \cap replicas
     IN \/ /\ Cardinality(replicas) # w.size
           /\ WaitReply(c, encode_error("execution error"))
        \/ /\ live = {}
           /\ IF pc[c] = "getack1" THEN WaitTimeout(c, w)
              ELSE WaitPoll(c, [w EXCEPT !.acked_replicas = 0,
                                         !.end_time = now + w.timeout_ms])
        \/ \E r \in live :
             /\ reply' = NoReply
             /\ UNCHANGED pc
             /\ IF r \in closing
                THEN /\ waits' = [waits EXCEPT ![c].todo = live \ {r}]
                     /\ running' = c
                ELSE /\ waits' = [waits EXCEPT ![c].todo = live \ {r},
                                               ![c].sent = @ + 1]
                     /\ running' \in {c, Nobody}
  /\ effects' = <<>>
  /\ UNCHANGED <<kv, now, grp, acked_generation, replicas, closing, replica_ack,
                 repl, highest_seen_generation, open, responses, transactions>>

\* asyncio.sleep(0.01) is over: the loop tests its condition again
WaitWake(c) ==
  /\ running = Nobody
  /\ pc[c] \in {"sleep1", "sleep2"}
  /\ waits[c].due
  /\ IF pc[c] = "sleep1" THEN WaitTimeout(c, waits[c])
     ELSE WaitPoll(c, waits[c])
  /\ effects' = <<>>
  /\ UNCHANGED <<kv, now, grp, acked_generation, replicas, closing, replica_ack,
                 repl, highest_seen_generation, open, responses, transactions>>

\* PSYNC on a fresh link: the link joins the replica set
ReplicaConnects(r) ==
  /\ running = Nobody
  /\ r \notin replicas
  /\ replicas' = replicas \cup {r}
  /\ replica_ack' = [replica_ack EXCEPT ![r] = 0]
  /\ reply' = NoReply
  /\ effects' = <<>>
  /\ UNCHANGED <<kv, now, grp, acked_generation, closing, waits, repl,
                 highest_seen_generation, sched, transactions>>

\* REPLCONF ACK: a replica reports that it processed the master's offset
ReplicaAcks(r) ==
  /\ running = Nobody
  /\ r \in replicas \ closing
  /\ replica_ack[r] < master_repl_offset
  /\ replica_ack' = [replica_ack EXCEPT ![r] = master_repl_offset]
  /\ reply' = NoReply
  /\ effects' = <<>>
  /\ UNCHANGED <<kv, now, grp, acked_generation, replicas, closing, waits, repl,
                 highest_seen_generation, sched, transactions>>

\* a replica link is lost: its transport is closing until it is pruned
ReplicaCloses(r) ==
  /\ running = Nobody
  /\ r \in replicas \ closing
  /\ closing' = closing \cup {r}
  /\ reply' = NoReply
  /\ effects' = <<>>
  /\ UNCHANGED <<kv, now, grp, acked_generation, replicas, replica_ack, waits,
                 repl, highest_seen_generation, sched, transactions>>

(* ----------------------------- node group ------------------------------ *)
Nodes == {"n1", "n2", "n3"}

\* the replication state of a node after the handler of MASTER_ANNOUNCE has
\* processed generation g
Receive(node, g) ==
  IF Wins(g, node.generation, node.role)
  THEN [node EXCEPT
          !.role = "slave",
          !.election_state =
             IF node.role = "master" THEN "follower" ELSE @,
          !.highest_seen_generation = Max(@, g)]
  ELSE node

\* the heartbeat of master n sends its generation to peer p
Announce(n, p) ==
  LET g == cluster[n].generation
  IN /\ n # p
     /\ cluster[n].role = "master"
     /\ <<n, p, g>> \notin announcements
     /\ announcements' = announcements \cup {<<n, p, g>>}
     /\ announced_generation' = Max(announced_generation, g)
     /\ reply' = NoReply
     /\ effects' = <<>>
     /\ UNCHANGED <<kv, now, acked_generation, wt, cluster, repl,
                    highest_seen_generation, sched, transactions>>

\* the announcement of n reaches peer p, whose handler processes it
Deliver(n, p) ==
  \E m \in announcements :
    /\ m[1] = n
    /\ m[2] = p
    /\ cluster' = [cluster EXCEPT ![p] = Receive(@, m[3])]
    /\ announcements' = announcements \ {m}
    /\ reply' = NoReply
    /\ effects' = <<>>
    /\ UNCHANGED <<kv, now, acked_generation, wt, announced_generation, repl,
                   highest_seen_generation, sched, transactions>>

(* ----------------------------- dispatcher ------------------------------ *)
_execute_command(c, command, args0) ==
  LET args == StripMarker(args0)
      hsg == MarkerSeen(args0)
  IN IF role = "slave" /\ command \in write_commands
     THEN _forward_write_to_master(c, command, args, hsg)
     ELSE IF command = "MULTI" THEN _handle_multi(c, hsg)
     ELSE IF command = "EXEC" THEN _handle_exec(c, hsg)
     ELSE IF command = "DISCARD" THEN _handle_discard(c, hsg)
     ELSE IF c \in DOMAIN transactions
     THEN QueueCommand(c, command, args, hsg)
     ELSE IF command = "PING"
     THEN /\ reply' = <<c, "+PONG\r\n">>
          /\ highest_seen_generation' = hsg
          /\ effects' = <<>>
          /\ UNCHANGED <<kv, quiet, repl, sched, transactions>>
     ELSE IF command = "ECHO" /\ args # <<>>
     THEN /\ reply' = <<c, encode_bulk_string(args[1])>>
          /\ highest_seen_generation' = hsg
          /\ effects' = <<>>
          /\ UNCHANGED <<kv, quiet, repl, sched, transactions>>
     ELSE IF command = "SET" /\ Len(args) >= 2 THEN _handle_set(c, args, hsg)
     ELSE IF command = "GET" THEN _handle_get(c, args, hsg)
     ELSE IF command = "INCR" THEN _handle_incr(c, args, hsg)
     ELSE IF command = "KEYS" THEN KEYS(c, args, hsg)
     ELSE IF command = "WAIT" THEN WAIT(c, args, hsg)
     ELSE IF command = "CLUSTER" THEN _handle_cluster_command(c, args, hsg)
     ELSE /\ reply' = <<c, encode_error("unknown command")>>
          /\ highest_seen_generation' = hsg
          /\ effects' = <<>>
          /\ UNCHANGED <<kv, quiet, repl, sched, transactions>>

\* buffer.startswith(b"PING") for an inline line with this first token
StartsWithPING(name) == name = "PING"

\* one complete frame of a connection's input is processed by its loop
handle_client(c, frame) ==
  /\ running = Nobody
  /\ open[c]
  /\ pc[c] = "idle"
  /\ IF frame.inline /\ StartsWithPING(frame.name)
     THEN /\ reply' = <<c, "+PONG\r\n">>
          /\ effects' = <<>>
          /\ UNCHANGED <<kv, quiet, repl, highest_seen_generation, sched,
                         transactions>>
     ELSE _execute_command(c, Upper(Upper(frame.name)), frame.args)

(* ---------------------------- array frames ----------------------------- *)
CountTexts == {"0", "1", "2", "3", "x"}

\* buffer[1:first_line_end] of a buffer that starts with "*"
CountText(line) == CHOOSE t \in CountTexts : line = "*" \o t

\* line.startswith(b"$")
StartsWithDollar(line) == line \in {"$1", "$3", "$4"}

None == "None"

\* lines[i] of command_data.split(b"\r\n"), whose last element is empty
SplitLine(lines, i) == IF i + 1 <= Len(lines) THEN lines[i + 1] ELSE ""

\* the loop that reads command and arguments out of the lines of a frame,
\* from index i on; done is FALSE when the loop meets a line that does not
\* start with "$", which it never gets past
RECURSIVE ParseArray(_, _, _, _, _)
ParseArray(lines, array_length, i, command, args) ==
  IF ~(i < Len(lines) + 1 /\ i < array_length * 2)
  THEN [done |-> TRUE, command |-> command, args |-> args]
  ELSE IF StartsWithDollar(SplitLine(lines, i))
  THEN IF i + 1 < Len(lines) + 1
       THEN IF command = None
            THEN ParseArray(lines, array_length, i + 2,
                            Upper(SplitLine(lines, i + 1)), args)
            ELSE ParseArray(lines, array_length, i + 2, command,
                            Append(args, SplitLine(lines, i + 1)))
       ELSE ParseArray(lines, array_length, i + 2, command, args)
  ELSE [done |-> FALSE, command |-> command, args |-> args]

\* the connection loop processes a buffer that holds the lines of one array
\* frame, complete by line count
handle_array(c, data) ==
  /\ running = Nobody
  /\ open[c]
  /\ pc[c] = "idle"
  /\ IF ~IsInt(CountText(data[1]))
     THEN /\ reply' = <<c, "-ERR protocol error\r\n">>
          /\ effects' = <<>>
          /\ UNCHANGED <<kv, quiet, repl, highest_seen_generation, sched,
                         transactions>>
     ELSE LET array_length == ParseInt(CountText(data[1]))
              parsed == ParseArray(SubSeq(data, 1, 2 * array_length + 1),
                                   array_length, 1, None, <<>>)
          IN /\ Len(data) - 1 >= 2 * array_length
             /\ IF parsed.done
                THEN IF parsed.command = None
                     THEN /\ reply' = <<c, encode_error("execution error")>>
                          /\ effects' = <<>>
                          /\ UNCHANGED <<kv, quiet, repl,
                                         highest_seen_generation, sched,
                                         transactions>>
                     ELSE _execute_command(c, Upper(parsed.command),
                                           parsed.args)
                ELSE /\ pc' = [pc EXCEPT ![c] = "parse"]
                     /\ running' = c
                     /\ reply' = NoReply
                     /\ effects' = <<>>
                     /\ UNCHANGED <<kv, quiet, repl, highest_seen_generation,
                                    open, responses, transactions>>

(* --------------------------- EXEC execution ---------------------------- *)
\* the effect of one queued command: the new keyspace, snapshot and pending
\* flag, its reply, whether it called propagate_to_replicas, and with which
\* command (the offset advances by that command's encoded length)
Effect(store, snap, pending, resp, wrote, cmd) ==
  [store |-> store, snap |-> snap,
   offset |-> IF wrote THEN Propagated(cmd) ELSE master_repl_offset,
   pending |-> pending, resp |-> resp, wrote |-> wrote, cmd |-> cmd]

NoEffect(resp) ==
  Effect(data_store, rdb, has_pending_writes, resp, FALSE, <<>>)

_execute_transaction_command(command, args) ==
  IF command = "PING" THEN NoEffect("+PONG\r\n")
  ELSE IF command = "ECHO" /\ args # <<>>
  THEN NoEffect(encode_bulk_string(args[1]))
  ELSE IF command = "SET" /\ Len(args) >= 2
  THEN IF SetExpiry(args) = "bad"
       THEN NoEffect(encode_error("value is not an integer or out of range"))
       ELSE LET store ==
                  Put(data_store, args[1], <<args[2], ExpiryOf(args)>>)
            IN Effect(store, store, TRUE, encode_simple_string("OK"), TRUE,
                      <<"SET", args[1], args[2]>> \o SubSeqFrom(args, 3))
  ELSE IF command = "GET"
  THEN IF Len(args) = 1
       THEN IF args[1] \in DOMAIN data_store
            THEN IF is_key_expired(args[1])
                 THEN Effect(Remove(data_store, args[1]), rdb,
                             has_pending_writes, NullBulk, FALSE, <<>>)
                 ELSE NoEffect(encode_bulk_string(data_store[args[1]][1]))
            ELSE NoEffect(NullBulk)
       ELSE NoEffect(
              encode_error("wrong number of arguments for 'get' command"))
  ELSE IF command = "INCR"
  THEN IF Len(args) # 1
       THEN NoEffect(
              encode_error("wrong number of arguments for 'incr' command"))
       ELSE IF args[1] \in DOMAIN data_store /\ ~is_key_expired(args[1])
       THEN IF IsInt(data_store[args[1]][1])
            THEN LET int_value == ParseInt(data_store[args[1]][1]) + 1
                     store == Put(data_store, args[1],
                                  <<ToStr(int_value), data_store[args[1]][2]>>)
                 IN Effect(store, store, TRUE, encode_integer(int_value),
                           TRUE, <<"INCR", args[1]>>)
            ELSE NoEffect(
                   encode_error("ERR value is not an integer or out of range"))
       ELSE LET store == Put(data_store, args[1], <<"1", NoExpiry>>)
            IN Effect(store, store, TRUE, encode_integer(1), TRUE,
                      <<"INCR", args[1]>>)
  ELSE NoEffect(encode_error("unknown command '" \o command \o "'"))

\* the loop collecting each reply in front of the earlier ones
ExecCommand_Prepends(c) ==
  /\ running \in {c, Nobody}
  /\ pc[c] = "exec"
  /\ Len(responses[c]) < Len(transactions[c])
  /\ LET entry == transactions[c][Len(responses[c]) + 1]
         e == _execute_transaction_command(entry[1], entry[2])
     IN /\ e.wrote => master_repl_offset < MaxOffset
        /\ data_store' = e.store
        /\ rdb' = e.snap
        /\ master_repl_offset' = e.offset
        /\ has_pending_writes' = e.pending
        /\ responses' = [responses EXCEPT ![c] = <<e.resp>> \o @]
        /\ running' \in (IF e.wrote THEN {c, Nobody} ELSE {c})
        /\ effects' = IF e.wrote THEN <<<<"propagate", e.cmd>>>> ELSE <<>>
  /\ reply' = NoReply
  /\ UNCHANGED <<quiet, transactions, role, generation, election_state,
                 master_host, highest_seen_generation, open, pc>>

\* the loop of _handle_exec runs the next queued command; a command that
\* propagated may have suspended in the replicas' drain (running' = Nobody)
ExecCommand(c) ==
  /\ running \in {c, Nobody}
  /\ pc[c] = "exec"
  /\ Len(responses[c]) < Len(transactions[c])
  /\ LET entry == transactions[c][Len(responses[c]) + 1]
         e == _execute_transaction_command(entry[1], entry[2])
     IN /\ e.wrote => master_repl_offset < MaxOffset
        /\ data_store' = e.store
        /\ rdb' = e.snap
        /\ master_repl_offset' = e.offset
        /\ has_pending_writes' = e.pending
        /\ responses' = [responses EXCEPT ![c] = Append(@, e.resp)]
        /\ running' \in (IF e.wrote THEN {c, Nobody} ELSE {c})
        /\ effects' = IF e.wrote THEN <<<<"propagate", e.cmd>>>> ELSE <<>>
  /\ reply' = NoReply
  /\ UNCHANGED <<quiet, transactions, role, generation, election_state,
                 master_host, highest_seen_generation, open, pc>>

\* the loop of _handle_exec is over: the array reply is written
ExecReply(c) ==
  /\ running \in {c, Nobody}
  /\ pc[c] = "exec"
  /\ Len(responses[c]) = Len(transactions[c])
  /\ reply' =
       <<c, "*" \o ToStr(Len(responses[c])) \o "\r\n" \o Concat(responses[c])>>
  /\ transactions' = Remove(transactions, c)
  /\ pc' = [pc EXCEPT ![c] = "idle"]
  /\ responses' = [responses EXCEPT ![c] = <<>>]
  /\ running' = Nobody
  /\ effects' = <<>>
  /\ UNCHANGED <<kv, quiet, repl, highest_seen_generation, open>>

(* ------------------------ connection lifecycle ------------------------- *)
\* a client is accepted: a new writer, which keys no transaction yet
Connect(c) ==
  /\ running = Nobody
  /\ ~open[c]
  /\ c \notin DOMAIN transactions
  /\ open' = [open EXCEPT ![c] = TRUE]
  /\ reply' = NoReply
  /\ effects' = <<>>
  /\ UNCHANGED <<kv, quiet, repl, highest_seen_generation, transactions, pc,
                 responses, running>>

\* reader.read returns b"" (how = "eof"): the loop breaks and the cleanup
\* after it runs.  reader.read raises (how = "reset"): the except clause
\* awaits writer.drain(), which raises the reader's exception again, and
\* handle_client ends before its cleanup
Disconnect(c, how) ==
  /\ running = Nobody
  /\ open[c]
  /\ pc[c] = "idle"
  /\ open' = [open EXCEPT ![c] = FALSE]
  /\ transactions' =
       IF how = "eof" THEN Remove(transactions, c) ELSE transactions
  /\ replicas' = IF how = "eof" THEN cleanup_replicas ELSE replicas
  /\ closing' = IF how = "eof" THEN {} ELSE closing
  /\ reply' = NoReply
  /\ effects' = <<>>
  /\ UNCHANGED <<kv, now, grp, acked_generation, replica_ack, waits, repl,
                 highest_seen_generation, pc, responses, running>>

\* a slave's replication link applies a write propagated by its master
MasterValues == {"7"}

MasterPropagates(key, value) ==
  /\ running = Nobody
  /\ role = "slave"
  /\ master_host
  /\ data_store' = Put(data_store, key, <<value, NoExpiry>>)
  /\ rdb' = data_store'
  /\ reply' = NoReply
  /\ effects' = <<>>
  /\ UNCHANGED <<quiet, repl, highest_seen_generation, transactions, sched>>

\* time passes
\* one poll interval passes.  A handler runs in no time, a GETACK broadcast
\* ends within the interval, and a WAIT whose sleep is over wakes before
\* the next interval ends
Tick ==
  /\ running = Nobody
  /\ now + PollMs <= MaxTime
  /\ \A c \in Conns : pc[c] \notin {"getack1", "getack2"}
  /\ \A c \in DOMAIN waits : ~waits[c].due
  /\ now' = now + PollMs
  /\ waits' = [c \in DOMAIN waits |-> [waits[c] EXCEPT !.due = TRUE]]
  /\ reply' = NoReply
  /\ effects' = <<>>
  /\ UNCHANGED <<kv, repl, highest_seen_generation, transactions, sched,
                 acked_generation, replicas, closing, replica_ack, grp>>

(* ------------------------------- inputs -------------------------------- *)
Frame(inline, name, args) == [inline |-> inline, name |-> name, args |-> args]

Announcement(g) == <<"MASTER_ANNOUNCE", "generation=" \o ToStr(g)>>

TransactionFrames ==
  {Frame(FALSE, "EXEC", <<>>), Frame(FALSE, "DISCARD", <<>>),
   Frame(FALSE, "EXEC", <<"_GEN_" \o ToStr(MaxGen)>>),
   Frame(FALSE, "DISCARD", <<"_GEN_" \o ToStr(MaxGen)>>)}

KeyspaceFrames ==
  {Frame(FALSE, "SET", <<"a", "1">>), Frame(FALSE, "INCR", <<"a">>),
   Frame(FALSE, "GET", <<"a">>), Frame(TRUE, "PING", <<>>),
   Frame(FALSE, "ping", <<>>)}

ClusterFrames ==
  {Frame(FALSE, "CLUSTER", Announcement(g)) : g \in 0..MaxGen}
    \cup {Frame(FALSE, "CLUSTER",
                Announcement(0) \o <<"_GEN_" \o ToStr(MaxGen)>>)}

MultiFrames == {Frame(FALSE, "MULTI", <<>>), Frame(TRUE, "multi", <<>>)}

\* the connections that open transactions; the others never send MULTI
TransactionConns == {"c1"}

\* what a connection sends under Spec: every frame of the transaction and
\* keyspace commands and, outside a transaction, the announcement of
\* generation MaxGen
Frames(c) ==
  (IF c \in TransactionConns THEN MultiFrames ELSE {})
    \cup TransactionFrames \cup KeyspaceFrames
    \cup (IF c \in DOMAIN transactions THEN {}
          ELSE {Frame(FALSE, "CLUSTER", Announcement(MaxGen))})

\* what a connection sends under SpecElection: outside a transaction every
\* frame, inside one EXEC, DISCARD and the announcement of generation MaxGen
ElectionFrames(c) ==
  IF c \in DOMAIN transactions
  THEN TransactionFrames \cup {Frame(FALSE, "CLUSTER", Announcement(MaxGen))}
  ELSE (IF c \in TransactionConns THEN MultiFrames ELSE {})
         \cup TransactionFrames \cup KeyspaceFrames \cup ClusterFrames

\* WAIT for no replica, for as many as may attach and for one more, without
\* timeout or with two poll intervals
WaitFrames ==
  {Frame(FALSE, "WAIT", <<ToStr(n), ToStr(t)>>) :
     n \in 0..(Cardinality(Replicas) + 1), t \in {0, 2 * PollMs}}

\* what a connection sends under SpecWait: c1 sends WAIT, the others write
WaitInputs(c) ==
  IF c \in TransactionConns THEN WaitFrames
  ELSE {Frame(FALSE, "SET", <<"a", "1">>)}

(* ---------------------------- specification ---------------------------- *)
InitGenerations == {0, 1}

\* the replication state a node starts with: its configured role, a master
\* address exactly when it is a slave, no write accepted yet
ReplicationInit ==
  /\ role \in {"master", "slave"}
  /\ generation \in InitGenerations
  /\ highest_seen_generation = generation
  /\ election_state = (IF role = "master" THEN "leader" ELSE "follower")
  /\ has_pending_writes = FALSE
  /\ master_repl_offset = 0
  /\ master_host = (role = "slave")

Init ==
  /\ data_store = <<>>
  /\ rdb = <<>>
  /\ now = 0
  /\ transactions = <<>>
  /\ ReplicationInit
  /\ open = [c \in Conns |-> FALSE]
  /\ pc = [c \in Conns |-> "idle"]
  /\ responses = [c \in Conns |-> <<>>]
  /\ running = Nobody
  /\ reply = NoReply
  /\ replicas = {}
  /\ closing = {}
  /\ replica_ack = [r \in Replicas |-> 0]
  /\ waits = <<>>
  /\ cluster = <<>>
  /\ announcements = {}
  /\ announced_generation = -1
  /\ acked_generation = -1
  /\ effects = <<>>

Next ==
  \/ \E c \in Conns : Connect(c)
  \/ \E c \in Conns : \E frame \in Frames(c) : handle_client(c, frame)
  \/ \E c \in Conns : ExecCommand(c)
  \/ \E c \in Conns : ExecReply(c)
  \/ \E c \in Conns, response_data \in MasterReplies :
       ForwardDone(c, response_data)
  \/ \E c \in Conns, how \in {"eof", "reset"} : Disconnect(c, how)
  \/ \E key \in Keys, value \in MasterValues : MasterPropagates(key, value)

Spec == Init /\ [][Next]_vars

NextElection ==
  \/ \E c \in Conns : Connect(c)
  \/ \E c \in Conns : \E frame \in ElectionFrames(c) : handle_client(c, frame)
  \/ \E c \in Conns : ExecCommand(c)
  \/ \E c \in Conns : ExecReply(c)
  \/ \E c \in Conns, response_data \in MasterReplies :
       ForwardDone(c, response_data)
  \/ \E c \in Conns, how \in {"eof", "reset"} : Disconnect(c, how)
  \/ \E key \in Keys, value \in MasterValues : MasterPropagates(key, value)

SpecElection == Init /\ [][NextElection]_vars

\* a master with its replicas, clients that write and a client that waits
InitWait == Init /\ role = "master" /\ generation = 1

NextWait ==
  \/ \E c \in Conns : Connect(c)
  \/ \E c \in Conns : \E frame \in WaitInputs(c) : handle_client(c, frame)
  \/ \E c \in Conns : Getack(c)
  \/ \E c \in Conns : WaitWake(c)
  \/ (waits # <<>> /\ Tick)
  \/ \E r \in Replicas : ReplicaConnects(r)
  \/ \E r \in Replicas : ReplicaAcks(r)
  \/ \E r \in Replicas : ReplicaCloses(r)
  \/ \E c \in Conns : Disconnect(c, "eof")

SpecWait == InitWait /\ [][NextWait]_vars

\* the array frames a connection sends under SpecParse: well-formed
\* commands, an empty array, a count that is no number, and frames with an
\* element line that lacks its "$" prefix
ArrayFrames ==
  {<<"*1", "$4", "PING">>, <<"*2", "$3", "GET", "$1", "a">>,
   <<"*3", "$3", "SET", "$1", "a", "$1", "1">>,
   <<"*2", "$4", "INCR", "$1", "a">>, <<"*2", "$4", "ECHO", "$1", "a">>,
   <<"*0">>, <<"*x">>,
   <<"*1", "PING", "">>, <<"*2", "$3", "GET", "a", "">>}

InitParse == Init /\ role = "master" /\ generation = 1

NextParse ==
  \/ \E c \in Conns : Connect(c)
  \/ \E c \in Conns : \E data \in ArrayFrames : handle_array(c, data)
  \/ \E c \in Conns, how \in {"eof", "reset"} : Disconnect(c, how)

\* the event loop runs whatever is ready to run
SpecParse == InitParse /\ [][NextParse]_vars /\ WF_vars(NextParse)

\* ECHO with an argument that starts with _GEN_: a well-formed marker at
\* the end, with a generation below and at the bound; a malformed one at
\* the end; a well-formed one before the end; and ECHO without any
EchoFrames ==
  {Frame(FALSE, "ECHO", <<"a", "_GEN_1">>),
   Frame(FALSE, "ECHO", <<"a", "_GEN_" \o ToStr(MaxGen)>>),
   Frame(FALSE, "ECHO", <<"a", "_GEN_x">>),
   Frame(FALSE, "ECHO", <<"_GEN_" \o ToStr(MaxGen), "a">>),
   Frame(FALSE, "ECHO", <<"a">>)}

\* what a connection sends under SpecMarker
MarkerFrames(c) ==
  EchoFrames
    \cup (IF c \in TransactionConns
          THEN {Frame(FALSE, "MULTI", <<>>), Frame(FALSE, "EXEC", <<>>)}
          ELSE {})

NextMarker ==
  \/ \E c \in Conns : Connect(c)
  \/ \E c \in Conns : \E frame \in MarkerFrames(c) : handle_client(c, frame)
  \/ \E c \in Conns : ExecCommand(c)
  \/ \E c \in Conns : ExecReply(c)

SpecMarker == Init /\ [][NextMarker]_vars

\* the integer the counter key holds in the snapshot SpecIncr starts from
InitialValue == 5

\* what a connection sends under SpecIncr
IncrFrames == {Frame(FALSE, "INCR", <<"a">>), Frame(FALSE, "GET", <<"a">>)}

\* a master whose snapshot holds the counter key, without expiry or with
\* one that the clock does not reach
InitIncr ==
  /\ data_store \in {[k \in Keys |-> <<ToStr(InitialValue), e>>] :
                       e \in {NoExpiry, MaxTime + PollMs}}
  /\ rdb = data_store
  /\ now = 0
  /\ transactions = <<>>
  /\ ReplicationInit
  /\ role = "master"
  /\ generation = 1
  /\ open = [c \in Conns |-> FALSE]
  /\ pc = [c \in Conns |-> "idle"]
  /\ responses = [c \in Conns |-> <<>>]
  /\ running = Nobody
  /\ reply = NoReply
  /\ replicas = {}
  /\ closing = {}
  /\ replica_ack = [r \in Replicas |-> 0]
  /\ waits = <<>>
  /\ cluster = <<>>
  /\ announcements = {}
  /\ announced_generation = -1
  /\ acked_generation = -1
  /\ effects = <<>>

NextIncr ==
  \/ \E c \in Conns : Connect(c)
  \/ \E c \in Conns : \E frame \in IncrFrames : handle_client(c, frame)
  \/ \E c \in Conns, how \in {"eof", "reset"} : Disconnect(c, how)
  \/ \E r \in Replicas : ReplicaConnects(r)
  \/ \E r \in Replicas : ReplicaAcks(r)

SpecIncr == InitIncr /\ [][NextIncr]_vars

\* what _load_from_rdb finds at startup: no snapshot, or one that holds the
\* key with an integer or another value, without expiry or expiring after
\* one poll interval
LoadedStores ==
  {<<>>} \cup
    {[k \in Keys |-> <<v, e>>] : v \in {"1", "x"}, e \in {NoExpiry, PollMs}}

\* what a connection sends under SpecKeys: c1 runs transactions of INCR,
\* GET and KEYS, the others send them directly
KeysFrames(c) ==
  {Frame(FALSE, "INCR", <<"a">>), Frame(FALSE, "GET", <<"a">>),
   Frame(FALSE, "KEYS", <<"*">>)}
    \cup (IF c \in TransactionConns
          THEN {Frame(FALSE, "MULTI", <<>>), Frame(FALSE, "EXEC", <<>>)}
          ELSE {})

\* a master that starts from a snapshot, with a replica link that may attach
InitKeys ==
  /\ data_store \in LoadedStores
  /\ rdb = data_store
  /\ now = 0
  /\ transactions = <<>>
  /\ ReplicationInit
  /\ role = "master"
  /\ generation = 1
  /\ open = [c \in Conns |-> FALSE]
  /\ pc = [c \in Conns |-> "idle"]
  /\ responses = [c \in Conns |-> <<>>]
  /\ running = Nobody
  /\ reply = NoReply
  /\ replicas = {}
  /\ closing = {}
  /\ replica_ack = [r \in Replicas |-> 0]
  /\ waits = <<>>
  /\ cluster = <<>>
  /\ announcements = {}
  /\ announced_generation = -1
  /\ acked_generation = -1
  /\ effects = <<>>

NextKeys ==
  \/ \E c \in Conns : Connect(c)
  \/ \E c \in Conns : \E frame \in KeysFrames(c) : handle_client(c, frame)
  \/ \E c \in Conns : ExecCommand(c)
  \/ \E c \in Conns : ExecReply(c)
  \/ \E r \in Replicas : ReplicaConnects(r)
  \/ Tick

SpecKeys == InitKeys /\ [][NextKeys]_vars

\* the states a node of the group starts in: any configured role and
\* generation, as a single node does
NodeInits ==
  {[role |-> r, generation |-> g, highest_seen_generation |-> g,
    election_state |-> IF r = "master" THEN "leader" ELSE "follower"] :
     r \in {"master", "slave"}, g \in 0..MaxGen}

\* a group of nodes, no announcement sent yet
InitCluster ==
  /\ data_store = <<>>
  /\ rdb = <<>>
  /\ now = 0
  /\ transactions = <<>>
  /\ ReplicationInit
  /\ role = "master"
  /\ generation = 1
  /\ open = [c \in Conns |-> FALSE]
  /\ pc = [c \in Conns |-> "idle"]
  /\ responses = [c \in Conns |-> <<>>]
  /\ running = Nobody
  /\ reply = NoReply
  /\ replicas = {}
  /\ closing = {}
  /\ replica_ack = [r \in Replicas |-> 0]
  /\ waits = <<>>
  /\ cluster \in [Nodes -> NodeInits]
  /\ announcements = {}
  /\ announced_generation = -1
  /\ acked_generation = -1
  /\ effects = <<>>

NextCluster ==
  \/ \E n \in Nodes, p \in Nodes : Announce(n, p)
  \/ \E n \in Nodes, p \in Nodes : Deliver(n, p)

\* every master keeps announcing to every peer, and every announcement in
\* flight is delivered
ClusterFairness ==
  \A n \in Nodes, p \in Nodes :
    WF_vars(Announce(n, p)) /\ WF_vars(Deliver(n, p))

SpecCluster == InitCluster /\ [][NextCluster]_vars /\ ClusterFairness

(* ------------------------------ properties ----------------------------- *)
AllFrames ==
  TransactionFrames \cup MultiFrames \cup KeyspaceFrames \cup ClusterFrames

WriteFrames == {frame \in AllFrames : frame.name \in {"SET", "INCR"}}

ExecFrames == {frame \in AllFrames : frame.name = "EXEC"}

DiscardFrames == {frame \in AllFrames : frame.name = "DISCARD"}

\* the frames a transaction queues
OtherFrames == AllFrames \ (MultiFrames \cup ExecFrames \cup DiscardFrames)

OK == encode_simple_string("OK")

\* the frame is a MASTER_ANNOUNCE carrying generation g
Announces(frame, g) ==
  /\ frame.name = "CLUSTER"
  /\ Len(frame.args) >= 2
  /\ frame.args[1] = "MASTER_ANNOUNCE"
  /\ frame.args[2] = "generation=" \o ToStr(g)

Rejected == encode_simple_string(
              "REJECTED generation=" \o ToStr(generation) \o " role=" \o role)

\* highest_seen_generation is left alone, or raised to the generation of the
\* frame's trailing marker
SeenOnlyRaisedByMarker(frame) ==
  \/ highest_seen_generation' = highest_seen_generation
  \/ /\ highest_seen_generation' > highest_seen_generation
     /\ frame.args # <<>>
     /\ frame.args[Len(frame.args)]
          = "_GEN_" \o ToStr(highest_seen_generation')

\* a step in which a SET or INCR sent by a client is executed or forwarded
ClientWriteStep ==
  \/ \E c \in Conns : \E frame \in WriteFrames : handle_client(c, frame)
  \/ \E c \in Conns :
       /\ ExecCommand(c)
       /\ transactions[c][Len(responses[c]) + 1][1] \in {"SET", "INCR"}

\* C1: while the node is a slave, no step that runs a client's SET or INCR
\* (sent directly, or queued after MULTI and run by EXEC) changes the keyspace.
C1_SlaveAppliesNoClientWrite ==
  [][(role = "slave" /\ ClientWriteStep) => data_store' = data_store]_vars

\* the replies a queued command can yield
ExpectedReplies(entry) ==
  IF entry[1] = "PING" THEN {"+PONG\r\n"}
  ELSE IF entry[1] = "SET" THEN {OK}
  ELSE IF entry[1] = "GET"
  THEN {NullBulk} \cup {encode_bulk_string(ToStr(n)) : n \in 0..9}
  ELSE IF entry[1] = "INCR" THEN {encode_integer(n) : n \in 1..9}
  ELSE {encode_error("unknown command '" \o entry[1] \o "'")}

\* the concatenations of one expected reply per queued command, in order
RECURSIVE ReplyBodies(_)
ReplyBodies(queue) ==
  IF queue = <<>> THEN {""}
  ELSE {h \o t : h \in ExpectedReplies(Head(queue)),
                 t \in ReplyBodies(Tail(queue))}

\* C2: the reply that ends an EXEC is one array holding exactly one reply per
\* queued command, each a reply of the command at that position, and the
\* connection is back in NORMAL; EXEC with an empty buffer replies with the
\* empty array and is back in NORMAL too.
C2_ExecRepliesInOrder ==
  [][\A c \in Conns :
       /\ ExecReply(c) =>
            /\ \E body \in ReplyBodies(transactions[c]) :
                 reply' = <<c, "*" \o ToStr(Len(transactions[c])) \o "\r\n"
                                  \o body>>
            /\ c \notin DOMAIN transactions'
            /\ pc'[c] = "idle"
       /\ \A frame \in ExecFrames :
            (/\ c \in DOMAIN transactions
             /\ transactions[c] = <<>>
             /\ handle_client(c, frame)) =>
               /\ reply' = <<c, "*0\r\n">>
               /\ c \notin DOMAIN transactions'
               /\ pc'[c] = "idle"]_vars

\* an EXEC of SET a 1, INCR a has replied OK, 2 in that order
C2_Witness ==
  /\ reply = <<"c1", "*2\r\n+OK\r\n:2\r\n">>
  /\ "c1" \notin DOMAIN transactions

\* C3: inside a transaction every command but MULTI, EXEC and DISCARD is
\* appended to the buffer and answered QUEUED, and is not executed.
C3_QueuedInsideTransaction ==
  [][\A c \in Conns : \A frame \in OtherFrames :
       (c \in DOMAIN transactions /\ handle_client(c, frame)) =>
          /\ reply' = <<c, encode_simple_string("QUEUED")>>
          /\ Len(transactions'[c]) = Len(transactions[c]) + 1
          /\ data_store' = data_store]_vars

\* C4: MULTI inside a transaction replies OK and leaves the buffer as it is.
C4_NestedMultiKeepsBuffer ==
  [][\A c \in Conns : \A frame \in MultiFrames :
       (c \in DOMAIN transactions /\ handle_client(c, frame)) =>
          /\ reply' = <<c, OK>>
          /\ transactions' = transactions]_vars

\* EXEC or DISCARD outside a transaction
OutsideTransaction(c, frame) ==
  c \notin DOMAIN transactions /\ handle_client(c, frame)

WithoutMulti(c, frame) ==
  <<c, encode_error("ERR " \o frame.name \o " without MULTI")>>

C6_DiscardDropsBuffer ==
  [][\A c \in Conns :
       /\ \A frame \in DiscardFrames :
            (c \in DOMAIN transactions /\ handle_client(c, frame)) =>
               /\ reply' = <<c, OK>>
               /\ c \notin DOMAIN transactions'
               /\ pc'[c] = "idle"
               /\ UNCHANGED <<data_store, rdb, master_repl_offset>>
       /\ (c \notin DOMAIN transactions /\ c \in DOMAIN transactions') =>
            \E frame \in MultiFrames : handle_client(c, frame)
       /\ \A frame \in ExecFrames :
            (c \notin DOMAIN transactions /\ handle_client(c, frame)) =>
               /\ reply' = <<c, encode_error("ERR EXEC without MULTI")>>
               /\ data_store' = data_store]_vars

\* c1 was answered OK by a DISCARD: no transaction is open, and no write,
\* announcement or forward (the other sources of OK) has happened
C6_Witness ==
  /\ reply = <<"c1", OK>>
  /\ "c1" \notin DOMAIN transactions
  /\ open["c1"]
  /\ role = "master"
  /\ ~has_pending_writes

\* C7: a connection that has disconnected keys no entry of the transaction
\* table.
C7_NoEntryAfterDisconnect ==
  \A c \in Conns : ~open[c] => c \notin DOMAIN transactions

\* the election rule of the claim
Accepts(g) == g > generation \/ (g = generation /\ role = "slave")

C9_OnlyStepDown ==
  [][role' # role =>
       /\ role = "master"
       /\ role' = "slave"
       /\ \E c \in Conns : \E g \in 0..MaxGen : \E frame \in ClusterFrames :
            /\ Announces(frame, g)
            /\ g >= generation
            /\ handle_client(c, frame)]_vars

\* a node that started as master has stepped down
C9_Witness ==
  /\ role = "slave"
  /\ election_state = "follower"
  /\ ~master_host
  /\ reply[2] = OK

\* C10: an announcement whose generation is lower than one acknowledged
\* before is rejected.
C10_StaleAnnouncementRejected ==
  [][\A c \in Conns : \A g \in 0..MaxGen : \A frame \in ClusterFrames :
       (/\ Announces(frame, g)
        /\ g < acked_generation
        /\ c \notin DOMAIN transactions
        /\ handle_client(c, frame)) =>
          reply' = <<c, Rejected>>]_vars

EffectIndex(kind, seq) ==
  LET S == {i \in 1..Len(seq) : seq[i][1] = kind}
  IN IF S = {} THEN 0 ELSE CHOOSE i \in S : \A j \in S : i <= j

\* C19: a SET or INCR executed directly on the master that succeeds hands the
\* write to propagate_to_replicas before it writes the reply to the client.
C19_PropagatedBeforeReply ==
  [][\A c \in Conns : \A frame \in WriteFrames :
       (/\ role = "master"
        /\ c \notin DOMAIN transactions
        /\ handle_client(c, frame)
        /\ data_store' # data_store) =>
          /\ EffectIndex("propagate", effects') > 0
          /\ EffectIndex("propagate", effects')
               < EffectIndex("reply", effects')]_vars

\* the step hands SET key <the value now stored> to propagate_to_replicas
PropagatesAsSet(key) ==
  /\ EffectIndex("propagate", effects') > 0
  /\ effects'[EffectIndex("propagate", effects')][2]
       = <<"SET", key, data_store'[key][1]>>

\* C20: every successful INCR on the master, executed directly or run by
\* EXEC, is propagated as SET key <resulting value>.
C20_IncrPropagatedAsSet ==
  [][\A c \in Conns :
       /\ \A frame \in WriteFrames :
            (/\ frame.name = "INCR"
             /\ role = "master"
             /\ c \notin DOMAIN transactions
             /\ handle_client(c, frame)
             /\ data_store' # data_store) => PropagatesAsSet(frame.args[1])
       /\ (/\ role = "master"
           /\ ExecCommand(c)
           /\ transactions[c][Len(responses[c]) + 1][1] = "INCR"
           /\ data_store' # data_store) =>
             PropagatesAsSet(transactions[c][Len(responses[c]) + 1][2][1])]_vars

\* the suspended WAIT of the connection replies in this step
WaitOver(c) == c \in DOMAIN waits /\ c \notin DOMAIN waits'

IntegerReplies(c, low) ==
  {<<c, encode_integer(n)>> : n \in low..(Cardinality(Replicas) + 1)}

\* C13: a WAIT for one or more replicas that arrived while no write was
\* pending and a replica was connected does not wait: no time passes before
\* its reply.
C13_IdleMasterDoesNotWait ==
  \A c \in DOMAIN waits :
    (waits[c].num_replicas >= 1 /\ ~waits[c].pending) =>
      now = waits[c].issued

\* C14: a WAIT that arrived with writes pending, when k replicas had
\* acknowledged the master offset, replies at least min(k, numreplicas).
C14_CountsAcknowledgedAtIssue ==
  [][\A c \in Conns :
       (/\ WaitOver(c)
        /\ waits[c].pending
        /\ reply' # <<c, encode_error("execution error")>>) =>
          reply' \in IntegerReplies(c, Min(waits[c].acked_at_issue,
                                          waits[c].num_replicas))]_vars

\* C15: the offset a WAIT compares the acknowledgments with is the master
\* offset at the moment the WAIT arrived.
C15_TargetIsOffsetAtIssue ==
  \A c \in DOMAIN waits :
    pc[c] \in {"getack2", "sleep2"} =>
      waits[c].current_offset = waits[c].issued_offset

\* C16: no WAIT is still unanswered later than its timeout plus one poll
\* interval after it arrived.
C16_RepliesWithinTimeout ==
  \A c \in DOMAIN waits :
    now <= waits[c].issued + waits[c].timeout_ms + PollMs

\* C17: a WAIT with integer arguments is answered with an integer.
C17_RepliesInteger ==
  [][\A c \in Conns : WaitOver(c) => reply' \in IntegerReplies(c, 0)]_vars

\* the number of replicas a WAIT frame asks for
Asked(frame) == ParseInt(frame.args[1])

\* C18: a WAIT that arrives while no replica is connected, or that asks for 0
\* replicas, is answered 0 in the step that receives it: the handler does
\* not suspend, no time passes and it starts no GETACK loop.
C18_NothingToWaitFor ==
  [][\A c \in Conns : \A frame \in WaitFrames :
       (/\ replicas \ closing = {} \/ Asked(frame) = 0
        /\ handle_client(c, frame)) =>
          /\ reply' = <<c, encode_integer(0)>>
          /\ pc'[c] = "idle"
          /\ c \notin DOMAIN waits'
          /\ now' = now]_vars

\* WAIT 0 was answered 0 while a replica is connected and a write is pending
C18_Witness ==
  /\ reply = <<"c1", encode_integer(0)>>
  /\ replicas \ closing # {}
  /\ has_pending_writes
  /\ pc["c1"] = "idle"
  /\ now = 0

\* C12: in a group where every master keeps announcing its generation to
\* every peer and every announcement is delivered, from some point on every
\* node whose generation is lower than the highest generation announced is
\* slave, so that the masters left hold the highest one.
LowerAreSlaves ==
  \A n \in Nodes :
    cluster[n].generation < announced_generation =>
      cluster[n].role = "slave"

C12_ConvergesOnHighest == <>[]LowerAreSlaves

\* a master has stepped down for an announcement, every node below the
\* highest generation announced is slave and a master is left
C12_Witness ==
  /\ announced_generation = MaxGen
  /\ announcements = {}
  /\ LowerAreSlaves
  /\ \E n \in Nodes :
       /\ cluster[n].election_state = "follower"
       /\ cluster[n].role = "slave"
       /\ cluster[n].generation < MaxGen
       /\ cluster[n].highest_seen_generation = MaxGen
  /\ \E n \in Nodes :
       cluster[n].role = "master" /\ cluster[n].generation = MaxGen

IncrFrame == Frame(FALSE, "INCR", <<"a">>)

NotAnInteger == encode_error("ERR value is not an integer or out of range")

\* the key is absent, or its entry is past its expiry
AbsentOrExpired(key) ==
  key \notin DOMAIN data_store \/ EntryExpired(data_store, key)

\* what an INCR of the key that answers resp must have done
IncrOutcome(key, resp) ==
  IF AbsentOrExpired(key)
  THEN /\ key \in DOMAIN data_store'
       /\ data_store'[key][1] = "1"
       /\ resp = encode_integer(1)
  ELSE IF IsInt(data_store[key][1])
  THEN /\ key \in DOMAIN data_store'
       /\ data_store'[key] =
            <<ToStr(ParseInt(data_store[key][1]) + 1), data_store[key][2]>>
       /\ resp = encode_integer(ParseInt(data_store[key][1]) + 1)
  ELSE /\ resp = NotAnInteger
       /\ data_store' = data_store
       /\ rdb' = rdb
       /\ master_repl_offset' = master_repl_offset
       /\ \A i \in 1..Len(effects') : effects'[i][1] # "propagate"

\* C21: on a master, INCR of an absent or expired key stores "1" and
\* replies 1; INCR of a live key holding the integer n stores n+1, keeps
\* the expiry and replies n+1; INCR of a live key holding another value
\* replies with the error, leaves the keyspace and the snapshot as they are
\* and propagates nothing.  The same holds for an INCR run by EXEC.
C21_IncrOutcomes ==
  [][\A c \in Conns :
       /\ (c \notin DOMAIN transactions /\ handle_client(c, IncrFrame)) =>
            /\ reply'[1] = c
            /\ IncrOutcome("a", reply'[2])
       /\ (/\ ExecCommand(c)
           /\ transactions[c][Len(responses[c]) + 1] = <<"INCR", <<"a">>>>) =>
            IncrOutcome("a", responses'[c][Len(responses'[c])])]_vars

\* an EXEC has run INCR on an entry past its expiry: the key holds "1"
\* without expiry
C21_Witness ==
  /\ now >= PollMs
  /\ reply = <<"c1", "*1\r\n" \o encode_integer(1)>>
  /\ "a" \in DOMAIN data_store
  /\ data_store["a"] = <<"1", NoExpiry>>
  /\ "a" \in DOMAIN rdb
  /\ rdb["a"] = <<"1", NoExpiry>>

GetFrame == Frame(FALSE, "GET", <<"a">>)

ScanFrame == Frame(FALSE, "KEYS", <<"*">>)

\* the reply of a read or a scan that finds the key absent
AbsentReply(frame) == IF frame = GetFrame THEN NullBulk ELSE encode_array(<<>>)

\* C22: an entry past its expiry is absent for GET and KEYS, and the GET or
\* the KEYS that meets it removes it from the keyspace.
C22_ExpiredPurgedOnAccess ==
  [][\A c \in Conns : \A frame \in {GetFrame, ScanFrame} :
       (/\ c \notin DOMAIN transactions
        /\ "a" \in DOMAIN data_store
        /\ EntryExpired(data_store, "a")
        /\ handle_client(c, frame)) =>
          /\ reply' = <<c, AbsentReply(frame)>>
          /\ "a" \notin DOMAIN data_store']_vars

\* C23: a link that has become a replica by PSYNC is written propagated
\* write commands only: no WAIT in progress has written a REPLCONF GETACK
\* request to a replica.
C23_ReplicaGetsOnlyWrites ==
  \A c \in DOMAIN waits : replicas # {} => waits[c].sent = 0

\* C24: the handling of a received array frame ends, whatever the frame
\* holds: no handler keeps the event loop for ever, so the loop is free for
\* the next command of any connection again and again.
C24_FrameHandlingEnds == []<>(running = Nobody)

\* the EXEC of the connection has run some of its queued commands, not all
MidExec(c) ==
  /\ pc[c] = "exec"
  /\ 0 < Len(responses[c])
  /\ Len(responses[c]) < Len(transactions[c])

\* C25: between two queued commands of an EXEC no command of another
\* connection is executed, so no other connection meets a keyspace to which
\* only some of the queued writes have been applied.
C25_ExecIsNotInterleaved ==
  [][\A c \in Conns : \A d \in Conns \ {c} : \A frame \in KeysFrames(d) :
       (MidExec(c) /\ replicas # {}) => ~handle_client(d, frame)]_vars

\* the last argument of the frame is a well-formed marker
TrailingMarker(frame) ==
  /\ frame.args # <<>>
  /\ IsGenMarker(frame.args[Len(frame.args)])
  /\ IsInt(MarkerSuffix(frame.args[Len(frame.args)]))

\* the arguments that are to reach the handler or the queue
ArgsToPass(frame) ==
  IF TrailingMarker(frame)
  THEN SubSeq(frame.args, 1, Len(frame.args) - 1)
  ELSE frame.args

\* highest_seen_generation after the frame
SeenToBe(frame) ==
  IF TrailingMarker(frame)
  THEN LET g == ParseInt(MarkerSuffix(frame.args[Len(frame.args)]))
       IN IF g > highest_seen_generation THEN g ELSE highest_seen_generation
  ELSE highest_seen_generation

\* C26: only a well-formed marker in the last place is removed, and it
\* raises highest_seen_generation to its value when that is higher; every
\* other argument, also one that starts with _GEN_ before the last place,
\* reaches the handler or the queue as it was sent.
C26_OnlyTrailingMarkerStripped ==
  [][\A c \in Conns : \A frame \in EchoFrames :
       handle_client(c, frame) =>
         /\ highest_seen_generation' = SeenToBe(frame)
         /\ IF c \in DOMAIN transactions
            THEN transactions'[c] =
                   Append(transactions[c], <<"ECHO", ArgsToPass(frame)>>)
            ELSE reply' = <<c, encode_bulk_string(ArgsToPass(frame)[1])>>]_vars

\* the inline command PING in upper and in lower case
InlinePING == Frame(TRUE, "PING", <<>>)

InlinePing == Frame(TRUE, "ping", <<>>)

\* C27: the reply and the state after a command do not depend on the letter
\* case of its name: in every state, inside or outside a transaction, the
\* step that processes inline PING is the step that processes inline ping.
C27_CaseOfNameIsIrrelevant ==
  [][\A c \in Conns :
       handle_client(c, InlinePING) <=> handle_client(c, InlinePing)]_vars

\* the connection's EXEC is about to run this queued command on a master
\* that still accepts writes in the model
NextQueued(c, entry) ==
  /\ pc[c] = "exec"
  /\ Len(responses[c]) < Len(transactions[c])
  /\ entry = transactions[c][Len(responses[c]) + 1]
  /\ role = "master"
  /\ master_repl_offset < MaxOffset

\* a connection outside any transaction that sends the command in this
\* state gets this reply and leaves this keyspace and master offset
DirectYields(d, entry, e) ==
  ENABLED (/\ _execute_command(d, entry[1], entry[2])
           /\ reply' = <<d, e.resp>>
           /\ data_store' = e.store
           /\ master_repl_offset' = e.offset)

\* C28: a queued command that EXEC is about to run yields the reply, the
\* keyspace and the propagation that the same command yields when a
\* connection outside a transaction sends it in the same state.
C28_QueuedRunsAsDirect ==
  \A c \in DOMAIN transactions :
    \A entry \in {transactions[c][i] : i \in 1..Len(transactions[c])} :
      NextQueued(c, entry) =>
        \A d \in Conns \ DOMAIN transactions :
          DirectYields(d, entry,
                       _execute_transaction_command(entry[1], entry[2]))

\* the INCR commands executed so far, where INCR is the only write: each
\* one advanced the master offset by the length of the SET it propagated
IncrsDone ==
  master_repl_offset \div Len(encode_array(<<"SET", "a", ToStr(InitialValue)>>))

IntegerReplyValues == {encode_integer(n) : n \in 0..(Len(DecimalStrings) - 1)}

\* C29: whatever the order in which the connections send their INCR
\* commands for a live integer key, no increment is lost: after n of them
\* the key holds the initial value plus n, and the INCR answered last was
\* answered with that value, so the n replies are the n values that follow
\* the initial one.
C29_NoIncrementLost ==
  /\ "a" \in DOMAIN data_store
  /\ data_store["a"][1] = ToStr(InitialValue + IncrsDone)
  /\ reply[2] \in IntegerReplyValues =>
       reply[2] = encode_integer(InitialValue + IncrsDone)

\* two INCR commands have been answered while both connections were open,
\* the second one on c2
C29_Witness ==
  /\ IncrsDone = 2
  /\ reply = <<"c2", encode_integer(InitialValue + 2)>>
  /\ data_store["a"] = <<ToStr(InitialValue + 2), MaxTime + PollMs>>
  /\ open["c1"]

====
